---- MODULE Spec2Model ----
(***************************************************************************)
(* AvData / AeroData: the fixed-width APT.txt parser and the nearest-      *)
(* airport queries built on the parsed catalog.                            *)
(*                                                                         *)
(* Text is a sequence of one-character strings.  A dataset line is a       *)
(* record of the fixed column ranges the parser slices out of it:          *)
(*   tag        line[0:3]                                                  *)
(*   ident      line[27:31]     (APT)     artcc     line[674:678]  (APT)   *)
(*   lat        line[523:537]   (APT)     lon       line[550:565]  (APT)   *)
(*   length     line[23:28]     (RWY)     surf_cond line[32:44]    (RWY)   *)
(* The other columns (state, city, width, TORA, ...) are copied verbatim   *)
(* by the parser and read by no query, so they are left out.               *)
(* Sequences are 1-based here; the Python index k is k+1 below.            *)
(***************************************************************************)
EXTENDS Integers, Sequences, FiniteSets, TLC

VARIABLES lines, airports, apts, downloads, ret, query

vars == <<lines, airports, apts, downloads, ret, query>>

\* ---------------------------------------------------------------- bounds
MaxBlocks == 2      \* facility blocks in a downloaded dataset (Spec)
MaxLines == 4       \* lines of an arbitrary line sequence (ParseSpec)
MaxNum == 3         \* largest result count asked of a query
MaxDownloads == 2   \* downloads counted before the model stops refreshing
MaxCells == 3       \* table cells of a scraped NOTAM page (NotamSpec)
MaxToday == 70      \* latest day of datetime.today(), in days after the anchor

\* ------------------------------------------------------- program constants
MinRwyLength == 8000      \* AeroData.nearestApts: l>=8000
MaxRangeNm == 1000        \* AeroData.nearestApts: dist<1000
CyclePeriodDays == 28     \* generateURL: timedelta(days=28)
MetresPerNm == 1852       \* dist/1852.0

\* ------------------------------------------------------------------ text
None == "None"

Digits == {"0", "1", "2", "3", "4", "5", "6", "7", "8", "9"}

DigitVal(c) ==
    CASE c = "0" -> 0 [] c = "1" -> 1 [] c = "2" -> 2 [] c = "3" -> 3
      [] c = "4" -> 4 [] c = "5" -> 5 [] c = "6" -> 6 [] c = "7" -> 7
      [] c = "8" -> 8 [] c = "9" -> 9

LowerChars == <<"a", "b", "c", "d", "e", "f", "g", "h", "i", "j", "k", "l", "m",
                "n", "o", "p", "q", "r", "s", "t", "u", "v", "w", "x", "y", "z">>
UpperChars == <<"A", "B", "C", "D", "E", "F", "G", "H", "I", "J", "K", "L", "M",
                "N", "O", "P", "Q", "R", "S", "T", "U", "V", "W", "X", "Y", "Z">>

\* str.upper() on one character
UpperChar(c) ==
    IF \E k \in 1..26 : LowerChars[k] = c
    THEN UpperChars[CHOOSE k \in 1..26 : LowerChars[k] = c]
    ELSE c

\* str.upper()
upper(s) == [k \in 1..Len(s) |-> UpperChar(s[k])]

IsSpace(c) == c \in {" ", "\n", "\t"}

\* The largest and the smallest element of a non-empty set of integers
Greatest(S) == CHOOSE k \in S : \A j \in S : j <= k
Least(S) == CHOOSE k \in S : \A j \in S : k <= j

\* str.rstrip(): s up to its last character that is no whitespace
rstrip(s) ==
    SubSeq(s, 1, Greatest({0} \cup {k \in 1..Len(s) : ~IsSpace(s[k])}))

\* str.lstrip(): s from its first character that is no whitespace
lstrip(s) ==
    SubSeq(s, Least({Len(s) + 1} \cup {k \in 1..Len(s) : ~IsSpace(s[k])}), Len(s))

\* The number that the first k characters of s, all digits, spell
RECURSIVE DigitsValUpTo(_, _)
DigitsValUpTo(s, k) ==
    IF k = 0 THEN 0 ELSE 10 * DigitsValUpTo(s, k - 1) + DigitVal(s[k])

DigitsVal(s) == DigitsValUpTo(s, Len(s))

AllDigits(s) == s # <<>> /\ \A k \in 1..Len(s) : s[k] \in Digits

\* int(text): surrounding whitespace is ignored, one leading sign is allowed,
\* anything else but decimal digits raises ValueError.
IntOfDigits(body, negative) ==
    IF AllDigits(body)
    THEN [exc |-> None, val |-> IF negative THEN 0 - DigitsVal(body) ELSE DigitsVal(body)]
    ELSE [exc |-> "ValueError", val |-> 0]

IntOfStripped(s) ==
    IF s # <<>> /\ s[1] \in {"+", "-"} THEN IntOfDigits(Tail(s), s[1] = "-")
    ELSE IntOfDigits(s, FALSE)

ParseInt(text) == IntOfStripped(rstrip(lstrip(text)))

\* s[lo-1:hi]: a Python slice, which stops at the end of a short string
Slice(s, lo, hi) ==
    IF lo > Len(s) THEN <<>> ELSE SubSeq(s, lo, IF hi < Len(s) THEN hi ELSE Len(s))

\* Mutant of LastDash: the index of the first "-" in s
FirstDashOf(s) ==
    IF \E k \in 1..Len(s) : s[k] = "-" THEN Least({k \in 1..Len(s) : s[k] = "-"}) ELSE 0

\* Index of the last "-" in s, 0 when there is none
LastDash(s) == Greatest({0} \cup {k \in 1..Len(s) : s[k] = "-"})

\* ------------------------------------------------------------ coordinates
\* A decoded coordinate D + M/60 + S/3600 is kept exactly as
\* [m |-> 60*D + M, s |-> S in 1/10000 arcsecond]: its value in degrees is
\* m/60 + s/36000000.  (One integer of 1/10000 arcseconds would not fit the
\* 32-bit integers of the model checker.)
RECURSIVE Pow10(_)
Pow10(n) == IF n = 0 THEN 1 ELSE 10 * Pow10(n - 1)

SecScale == Pow10(4)

\* Index of the first "." in s, 0 when there is none
FirstDot(s) ==
    IF \E k \in 1..Len(s) : s[k] = "." THEN Least({k \in 1..Len(s) : s[k] = "."}) ELSE 0

\* float(text) for plain decimal notation with at most four fractional
\* digits, in units of 1/SecScale; any other character raises ValueError.
FloatOfParts(ipart, fpart, sign) ==
    IF /\ \A k \in 1..Len(ipart) : ipart[k] \in Digits
       /\ \A k \in 1..Len(fpart) : fpart[k] \in Digits
       /\ Len(ipart) + Len(fpart) > 0
       /\ Len(fpart) <= 4
    THEN [exc |-> None,
          val |-> sign * (DigitsVal(ipart) * SecScale
                          + DigitsVal(fpart) * Pow10(4 - Len(fpart)))]
    ELSE [exc |-> "ValueError", val |-> 0]

FloatOfBody(body, dot, sign) ==
    IF dot = 0 THEN FloatOfParts(body, <<>>, sign)
    ELSE FloatOfParts(SubSeq(body, 1, dot - 1), SubSeq(body, dot + 1, Len(body)), sign)

FloatOfStripped(s) ==
    IF s # <<>> /\ s[1] \in {"+", "-"}
    THEN FloatOfBody(Tail(s), FirstDot(Tail(s)), IF s[1] = "-" THEN 0 - 1 ELSE 1)
    ELSE FloatOfBody(s, FirstDot(s), 1)

ParseFloat(text) == FloatOfStripped(rstrip(lstrip(text)))

\* int(s[d1:d2]) + degrees(0, int(s[m1:m2]), float(s[s1:s2])), the 1-based
\* inclusive column ranges given by the caller
DmsOf(d, m, f) ==
    IF d.exc # None \/ m.exc # None \/ f.exc # None
    THEN [exc |-> "ValueError", val |-> [m |-> 0, s |-> 0]]
    ELSE [exc |-> None, val |-> [m |-> 60 * d.val + m.val, s |-> f.val]]

DecodeDms(s, d1, d2, m1, m2, s1, s2) ==
    DmsOf(ParseInt(Slice(s, d1, d2)), ParseInt(Slice(s, m1, m2)),
          ParseFloat(Slice(s, s1, s2)))

\* Mutant of Negate: the sign is kept
NegateNot(c) == c

\* a = -a, b = -b
Negate(c) == [m |-> 0 - c.m, s |-> 0 - c.s]

\* convertToDeg / __convert_to_deg: [a, b] = [latitude, longitude].  The
\* hemisphere letter s[-1] is read after the numbers, so a text too short
\* to hold one has already raised ValueError.
DegOf(s1, s2, a, b) ==
    IF a.exc # None THEN [exc |-> a.exc, val |-> <<>>]
    ELSE IF b.exc # None THEN [exc |-> b.exc, val |-> <<>>]
    ELSE [exc |-> None,
          val |-> << IF s1[Len(s1)] = "S" THEN Negate(a.val) ELSE a.val,
                     IF s2[Len(s2)] = "W" THEN Negate(b.val) ELSE b.val >>]

convertToDeg(coords) ==
    DegOf(coords[1], coords[2],
          DecodeDms(coords[1], 1, 2, 4, 5, 7, 13),
          DecodeDms(coords[2], 1, 3, 5, 6, 8, 14))

\* Mutant of Boundary: the ARR marker is not taken for a boundary
BoundaryWithoutArr == {"RMK", "APT"}

\* ---------------------------------------------------------------- parser
Boundary == {"RMK", "APT", "ARR"}

\* One RWY line decoded (lines 88-105); src is the index of the line the
\* Runway object was built from, which stands for the object's identity.
RunwayOf(length, surf_cond, k, at) ==
    [length |-> length,
     surface |-> IF k > 0 THEN SubSeq(surf_cond, 1, k - 1) ELSE surf_cond,
     cond |-> IF k > 0 THEN SubSeq(surf_cond, k + 1, Len(surf_cond)) ELSE <<>>,
     src |-> at]

DecodeRunway(line, at) ==
    RunwayOf(lstrip(line.length), rstrip(line.surf_cond),
             LastDash(rstrip(line.surf_cond)), at)

\* Mutant of ScanRunways: the end of the lines is taken for a boundary
RECURSIVE ScanRunwaysToEof(_, _, _, _)
ScanRunwaysToEof(ls, i, n, rwys) ==
    IF i + n > Len(ls) THEN [exc |-> None, rwys |-> rwys]
    ELSE IF ls[i + n].tag \in {"RMK", "APT", "ARR"} THEN [exc |-> None, rwys |-> rwys]
    ELSE ScanRunwaysToEof(ls, i, n + 1,
                          IF ls[i + n].tag = "RWY"
                          THEN Append(rwys, DecodeRunway(ls[i + n], i + n))
                          ELSE rwys)

\* The while loop over lines[i+n]: the runways collected, or IndexError when
\* i+n runs past the last line
RECURSIVE ScanRunways(_, _, _, _)
ScanRunways(ls, i, n, rwys) ==
    IF i + n > Len(ls) THEN [exc |-> "IndexError", rwys |-> rwys]
    ELSE IF ls[i + n].tag \in Boundary THEN [exc |-> None, rwys |-> rwys]
    ELSE ScanRunways(ls, i, n + 1,
                     IF ls[i + n].tag = "RWY"
                     THEN Append(rwys, DecodeRunway(ls[i + n], i + n))
                     ELSE rwys)

\* "K" prefixed to a code of exactly three characters
\* Mutant of PrefixK: no code is prefixed
PrefixNothing(t) == t

\* if len(icao_ident)==3: icao_ident = 'K'+icao_ident
PrefixK(t) == IF Len(t) = 3 THEN <<"K">> \o t ELSE t

NormalizeIdent(raw) == PrefixK(rstrip(raw))

\* The body of `if lines[i][0:3]=='APT'`: the Airport built from line i
AirportOf(line, i, loc, scan) ==
    [exc |-> IF loc.exc # None THEN loc.exc ELSE scan.exc,
     apt |-> [icao_ident |-> NormalizeIdent(line.ident),
              location |-> loc.val,
              responsible_artcc |-> NormalizeIdent(line.artcc),
              rwys |-> scan.rwys,
              src |-> i]]

DecodeAirport(ls, i) ==
    AirportOf(ls[i], i, convertToDeg(<<ls[i].lat, ls[i].lon>>), ScanRunways(ls, i, 1, <<>>))

\* Mutant of ParseFrom: the outer loop resumes behind the boundary line of
\* the facility just decoded, so an APT line that ended a block is lost
RECURSIVE BoundaryAt(_, _)
BoundaryAt(ls, j) ==
    IF j > Len(ls) \/ ls[j].tag \in {"RMK", "APT", "ARR"} THEN j ELSE BoundaryAt(ls, j + 1)

RECURSIVE ParseFromSkipping(_, _, _)
RECURSIVE ParseBehindSkipping(_, _, _, _)
ParseBehindSkipping(ls, i, acc, d) ==
    IF d.exc # None THEN [exc |-> d.exc, airports |-> <<>>]
    ELSE ParseFromSkipping(ls, BoundaryAt(ls, i + 1) + 1, Append(acc, d.apt))

ParseFromSkipping(ls, i, acc) ==
    IF i > Len(ls) THEN [exc |-> None, airports |-> acc]
    ELSE IF ls[i].tag = "APT" THEN ParseBehindSkipping(ls, i, acc, DecodeAirport(ls, i))
    ELSE ParseFromSkipping(ls, i + 1, acc)

\* for i in range(len(lines)): every index is visited, also the lines the
\* sub-record loop has already scanned
RECURSIVE ParseFrom(_, _, _)

\* The facility d decoded from line i joins the list, or its exception
\* ends the parse
RECURSIVE ParseBehind(_, _, _, _)
ParseBehind(ls, i, acc, d) ==
    IF d.exc # None THEN [exc |-> d.exc, airports |-> <<>>]
    ELSE ParseFrom(ls, i + 1, Append(acc, d.apt))

ParseFrom(ls, i, acc) ==
    IF i > Len(ls) THEN [exc |-> None, airports |-> acc]
    ELSE IF ls[i].tag = "APT" THEN ParseBehind(ls, i, acc, DecodeAirport(ls, i))
    ELSE ParseFrom(ls, i + 1, acc)

\* AeroData.parseAirports
parseAirports(ls) == ParseFrom(ls, 1, <<>>)

\* AvData.__parse_airports
parse_airports(ls) == ParseFrom(ls, 1, <<>>)

\* ------------------------------------------------------------- geodesy
\* Geod(ellps='WGS84').inv is a library call.  It is modelled on a grid on
\* which one arcminute of latitude or longitude is one nautical mile
\* (1852 m) and the distance is the sum of the north-south and east-west
\* legs; azimuths are the eight compass directions, in (-180, 180].
Abs(x) == IF x < 0 THEN 0 - x ELSE x

\* A coordinate as metres along its axis: 1852 m per arcminute, that is
\* 463/150000 m per 1/10000 arcsecond
AxisMetres(c) == MetresPerNm * c.m + (463 * c.s) \div 150000

GeodInv(lon1, lat1, lon2, lat2) ==
    LET dN == AxisMetres(lat2) - AxisMetres(lat1)
        dE == AxisMetres(lon2) - AxisMetres(lon1)
    IN  [fwd_az |-> IF dE = 0 THEN (IF dN < 0 THEN 180 ELSE 0)
                    ELSE IF dE > 0 THEN (IF dN > 0 THEN 45 ELSE IF dN = 0 THEN 90 ELSE 135)
                    ELSE (IF dN > 0 THEN 0 - 45 ELSE IF dN = 0 THEN 0 - 90 ELSE 0 - 135),
         dist |-> Abs(dN) + Abs(dE)]

\* --------------------------------------------------------------- queries
WATER == <<"W", "A", "T", "E", "R">>
TURF == <<"T", "U", "R", "F">>

Max(x, y) == IF x >= y THEN x ELSE y
Min(x, y) == IF x <= y THEN x ELSE y

\* The loop over a facility's runways: l = max(l, int(r.length)) over the
\* runways whose surface is neither WATER nor TURF; int() may raise
RECURSIVE UsableFrom(_, _, _)

\* l = max(l, p) for the parsed length p of runway k, or its ValueError
RECURSIVE UsableBehind(_, _, _, _)
UsableBehind(rwys, k, l, p) ==
    IF p.exc # None THEN [exc |-> "ValueError", val |-> l]
    ELSE UsableFrom(rwys, k + 1, Max(l, p.val))

UsableFrom(rwys, k, l) ==
    IF k > Len(rwys) THEN [exc |-> None, val |-> l]
    ELSE IF rwys[k].surface # WATER /\ rwys[k].surface # TURF
         THEN UsableBehind(rwys, k, l, ParseInt(rwys[k].length))
         ELSE UsableFrom(rwys, k + 1, l)

UsableLength(apt) == UsableFrom(apt.rwys, 1, 0)

\* Mutant of Take: the list is not cut
TakeAll(seq, k) == seq

\* seq[:k]
Take(seq, k) ==
    IF k >= 0 THEN SubSeq(seq, 1, Min(k, Len(seq)))
    ELSE SubSeq(seq, 1, Max(Len(seq) + k, 0))

\* The place of seq[k] in sorted(seq, key=dist): behind every element
\* with a smaller dist and behind the earlier elements with the same dist
\* (sorted() is stable)
SortedPlace(seq, k) ==
    1 + Cardinality({j \in 1..Len(seq) :
                        \/ seq[j].dist < seq[k].dist
                        \/ (seq[j].dist = seq[k].dist /\ j < k)})

\* Mutant of sorted: the list is left in catalog order
unsorted(seq) == seq

\* sorted(seq, key=lambda x: x[dist])
sorted(seq) ==
    [p \in 1..Len(seq) |-> seq[CHOOSE k \in 1..Len(seq) : SortedPlace(seq, k) = p]]

\* --------------------------------------------------- AeroData.nearestApts
\* for a in self.apts: if a.icao_ident==myAptIdent: myApt = a; break
\* (the index of the first match, 0 for myApt = None)
RECURSIVE FindApt(_, _, _)
FindApt(catalog, myAptIdent, k) ==
    IF k > Len(catalog) THEN 0
    ELSE IF catalog[k].icao_ident = myAptIdent THEN k
    ELSE FindApt(catalog, myAptIdent, k + 1)

\* Mutant of NormalizeAz: a negative azimuth is kept
NormalizeAzNot(fwd_az) == fwd_az

\* if fwd_az<0: fwd_az+=360
NormalizeAz(fwd_az) == IF fwd_az < 0 THEN fwd_az + 360 ELSE fwd_az

\* Mutant of KeepApt: the range cap is inclusive
KeepAptInclusive(l, distMetres) ==
    l >= MinRwyLength /\ distMetres <= MaxRangeNm * MetresPerNm

\* if l>=8000 and dist<1000, with dist = metres/1852.0 compared as metres
KeepApt(l, distMetres) ==
    l >= MinRwyLength /\ distMetres < MaxRangeNm * MetresPerNm

\* Mutant of AeroScan: the facility at the origin's own location is skipped
RECURSIVE AeroScanOthers(_, _, _, _)
RECURSIVE AeroBehindOthers(_, _, _, _, _, _)
AeroBehindOthers(catalog, myLoc, k, nearest, l, g) ==
    IF l.exc # None THEN [exc |-> l.exc, list |-> <<>>]
    ELSE AeroScanOthers(catalog, myLoc, k + 1,
                        IF catalog[k].location # myLoc /\ KeepApt(l.val, g.dist)
                        THEN Append(nearest, [a |-> catalog[k],
                                              fwd_az |-> NormalizeAz(g.fwd_az),
                                              dist |-> g.dist])
                        ELSE nearest)

AeroScanOthers(catalog, myLoc, k, nearest) ==
    IF k > Len(catalog) THEN [exc |-> None, list |-> nearest]
    ELSE AeroBehindOthers(catalog, myLoc, k, nearest, UsableLength(catalog[k]),
                          GeodInv(myLoc[2], myLoc[1],
                                  catalog[k].location[2], catalog[k].location[1]))

\* The second loop of nearestApts over every facility of the catalog.  An
\* entry [a, fwd_az, dist] keeps dist as the metre count: the range in
\* nautical miles is dist/1852, and the order of the two is the same.
RECURSIVE AeroScan(_, _, _, _)

\* The body of the loop for a = catalog[k], with l the usable runway
\* length of a and g the result of Geod.inv from myLoc to a.location
RECURSIVE AeroBehind(_, _, _, _, _, _)
AeroBehind(catalog, myLoc, k, nearest, l, g) ==
    IF l.exc # None THEN [exc |-> l.exc, list |-> <<>>]
    ELSE AeroScan(catalog, myLoc, k + 1,
                  IF KeepApt(l.val, g.dist)
                  THEN Append(nearest, [a |-> catalog[k], fwd_az |-> NormalizeAz(g.fwd_az),
                                        dist |-> g.dist])
                  ELSE nearest)

AeroScan(catalog, myLoc, k, nearest) ==
    IF k > Len(catalog) THEN [exc |-> None, list |-> nearest]
    ELSE AeroBehind(catalog, myLoc, k, nearest, UsableLength(catalog[k]),
                    GeodInv(myLoc[2], myLoc[1],
                            catalog[k].location[2], catalog[k].location[1]))

\* AeroData.nearestApts(aptID, num, getCenters); getCenters is not read
\* The end of nearestApts: the scanned list sorted by distance and cut
AeroResult(scan, num) ==
    IF scan.exc # None
    THEN [exc |-> scan.exc, what |-> "int(r.length)", val |-> <<>>]
    ELSE [exc |-> None, what |-> None,
          val |-> Take(sorted(scan.list), Min(num, Len(scan.list)))]

\* nearestApts from the lookup's result o on: myApt = catalog[o], or None
AeroFrom(catalog, o, num) ==
    IF o = 0
    THEN [exc |-> "AttributeError", what |-> "NoneType has no location", val |-> <<>>]
    ELSE AeroResult(AeroScan(catalog, catalog[o].location, 1, <<>>), num)

nearestApts(catalog, aptID, num) == AeroFrom(catalog, FindApt(catalog, aptID, 1), num)

\* ------------------------------------------------------------- AvData
\* for airport in self.airports: if airport.icao_ident.upper() ==
\* icao_ident.upper(): ...; break   (index of the first match, 0 for None)
RECURSIVE FindAirport(_, _, _)
FindAirport(catalog, icao_ident, k) ==
    IF k > Len(catalog) THEN 0
    ELSE IF upper(catalog[k].icao_ident) = upper(icao_ident) THEN k
    ELSE FindAirport(catalog, icao_ident, k + 1)

\* Mutant of get_data: identifiers are compared as they are spelled
get_data_case_sensitive(catalog, icao_ident) ==
    IF FindApt(catalog, icao_ident, 1) = 0
    THEN [exc |-> "ValueError", what |-> "not found in FAA data", val |-> <<>>]
    ELSE [exc |-> None, what |-> None, val |-> <<catalog[FindApt(catalog, icao_ident, 1)]>>]

\* The lookup of get_data on a loaded catalog
get_data(catalog, icao_ident) ==
    IF FindAirport(catalog, icao_ident, 1) = 0
    THEN [exc |-> "ValueError", what |-> "not found in FAA data", val |-> <<>>]
    ELSE [exc |-> None, what |-> None, val |-> <<catalog[FindAirport(catalog, icao_ident, 1)]>>]

\* The loop `for apt in self.airports` of nearest_airports.  The runway
\* length is the one of apt, but location and appended facility are those
\* of `a`, the loop variable of the lookup above, which still holds the
\* selected airport.
\* current_loc = selected_aiport.location, and the selected airport is a
current_loc(a) == a.location

RECURSIVE AvScan(_, _, _, _, _)

\* The body of the loop for apt = catalog[k]: shortest_runway is taken
\* from apt, and g is Geod.inv from current_loc to a.location
RECURSIVE AvBehind(_, _, _, _, _, _, _)
AvBehind(catalog, a, min_rwy_length, k, nearest, shortest_runway, g) ==
    IF shortest_runway.exc # None THEN [exc |-> shortest_runway.exc, list |-> <<>>]
    ELSE AvScan(catalog, a, min_rwy_length, k + 1,
                IF shortest_runway.val >= min_rwy_length
                THEN Append(nearest, [a |-> a, dist |-> g.dist])
                ELSE nearest)

AvScan(catalog, a, min_rwy_length, k, nearest) ==
    IF k > Len(catalog) THEN [exc |-> None, list |-> nearest]
    ELSE AvBehind(catalog, a, min_rwy_length, k, nearest, UsableLength(catalog[k]),
                  GeodInv(current_loc(a)[2], current_loc(a)[1],
                          a.location[2], a.location[1]))

\* Mutant of CentersFrom: a code is appended for every selected entry
CentersOfAll(apts_sorted, k, centers) ==
    [j \in 1..Len(apts_sorted) |-> apts_sorted[j].a.responsible_artcc]

\* centers: the responsible_artcc of the selected entries, each once
RECURSIVE CentersFrom(_, _, _)
CentersFrom(apts_sorted, k, centers) ==
    IF k > Len(apts_sorted) THEN centers
    ELSE CentersFrom(apts_sorted, k + 1,
                     IF \E j \in 1..Len(centers) :
                           centers[j] = apts_sorted[k].a.responsible_artcc
                     THEN centers
                     ELSE Append(centers, apts_sorted[k].a.responsible_artcc))

\* A returned list holds Airport objects and strings
AptItem(apt) == [kind |-> "Airport", apt |-> apt, str |-> <<>>]
StrItem(str) == [kind |-> "str", apt |-> <<>>, str |-> str]

\* nearest_airports on a loaded catalog
\* The returned list: the selected facilities, as objects or as identifier
\* strings, followed by the centers
ItemsOf(apts_sorted, centers, return_string) ==
    [k \in 1..Len(apts_sorted) |->
        IF return_string THEN StrItem(apts_sorted[k].a.icao_ident)
        ELSE AptItem(apts_sorted[k].a)]
    \o [k \in 1..Len(centers) |-> StrItem(centers[k])]

\* The end of nearest_airports from the sorted and cut list on
AvSelected(apts_sorted, return_string, get_centers) ==
    ItemsOf(apts_sorted,
            IF get_centers THEN CentersFrom(apts_sorted, 1, <<>>) ELSE <<>>,
            return_string)

AvResult(scan, num, return_string, get_centers) ==
    IF scan.exc # None
    THEN [exc |-> scan.exc, what |-> "int(rwy.length)", val |-> <<>>]
    ELSE [exc |-> None, what |-> None,
          val |-> AvSelected(Take(sorted(scan.list), Min(num, Len(scan.list))),
                             return_string, get_centers)]

\* nearest_airports from the lookup's result o on: a = catalog[o], or the
\* loop found no match
AvFrom(catalog, o, num, min_rwy_length, return_string, get_centers) ==
    IF o = 0 THEN [exc |-> "ValueError", what |-> "not found in FAA data", val |-> <<>>]
    ELSE AvResult(AvScan(catalog, catalog[o], min_rwy_length, 1, <<>>),
                  num, return_string, get_centers)

nearest_airports(catalog, icao_ident, num, min_rwy_length, return_string, get_centers) ==
    AvFrom(catalog, FindAirport(catalog, icao_ident, 1), num, min_rwy_length,
           return_string, get_centers)

\* bearing_range from the two get_data results on: Geod.inv g between the
\* locations, `if fwd_az < 0: fwd_az = 360 + fwd_az`, dist = dist/1852.
\* The range is kept as the fraction metres/per.
BearingOf(g) ==
    [exc |-> None, what |-> None,
     val |-> <<NormalizeAz(g.fwd_az), [metres |-> g.dist, per |-> MetresPerNm]>>]

BearingBetween(origin, destination) ==
    BearingOf(GeodInv(origin.location[2], origin.location[1],
                      destination.location[2], destination.location[1]))

\* o and d are the outcomes of get_data for origin and destination; the
\* exception of the first that raised leaves bearing_range
BearingFrom(o, d) ==
    IF o.exc # None THEN o
    ELSE IF d.exc # None THEN d
    ELSE BearingBetween(o.val[1], d.val[1])

\* AvData.bearing_range on a loaded catalog
bearing_range(catalog, icao_ident_origin, icao_ident_dest) ==
    BearingFrom(get_data(catalog, icao_ident_origin), get_data(catalog, icao_ident_dest))

\* ------------------------------------------------------------ datasets
\* Lines of APT.txt.  Identifier, ARTCC code and coordinates of an APT
\* line, length and surface of a RWY line are the text of their columns.
AptVPS ==
    [tag |-> "APT",
     ident |-> <<"V", "P", "S", " ">>,
     artcc |-> <<"Z", "J", "X", " ">>,
     lat |-> <<"3", "0", "-", "0", "0", "-", "0", "0", ".", "0", "0", "0", "0", "N">>,
     lon |-> <<"0", "8", "6", "-", "0", "0", "-", "0", "0", ".", "0", "0", "0", "0", "W">>]

\* 300 nm east of AptVPS
AptPAM ==
    [tag |-> "APT",
     ident |-> <<"P", "A", "M", " ">>,
     artcc |-> <<"Z", "J", "X", " ">>,
     lat |-> <<"3", "0", "-", "0", "0", "-", "0", "0", ".", "0", "0", "0", "0", "N">>,
     lon |-> <<"0", "8", "1", "-", "0", "0", "-", "0", "0", ".", "0", "0", "0", "0", "W">>]

\* exactly 1000 nm north of AptVPS
AptPHNL ==
    [tag |-> "APT",
     ident |-> <<"P", "H", "N", "L">>,
     artcc |-> <<"Z", "H", "N", " ">>,
     lat |-> <<"4", "6", "-", "4", "0", "-", "0", "0", ".", "0", "0", "0", "0", "N">>,
     lon |-> <<"0", "8", "6", "-", "0", "0", "-", "0", "0", ".", "0", "0", "0", "0", "W">>]

\* a second facility with the identifier of AptVPS, south of the equator
AptVPS2 ==
    [tag |-> "APT",
     ident |-> <<"V", "P", "S", " ">>,
     artcc |-> <<"K", "Z", "M", "A">>,
     lat |-> <<"3", "0", "-", "0", "0", "-", "0", "0", ".", "0", "0", "0", "0", "S">>,
     lon |-> <<"0", "8", "6", "-", "0", "0", "-", "0", "0", ".", "0", "0", "0", "0", "W">>]

\* lower-case identifier, north-west of AptVPS
AptLower ==
    [tag |-> "APT",
     ident |-> <<"p", "a", "m", " ">>,
     artcc |-> <<"Z", "T", "L", " ">>,
     lat |-> <<"3", "0", "-", "2", "8", "-", "5", "8", ".", "1", "3", "7", "0", "N">>,
     lon |-> <<"0", "8", "6", "-", "3", "1", "-", "3", "1", ".", "3", "3", "9", "0", "W">>]

\* identifier of two characters
AptXY ==
    [tag |-> "APT",
     ident |-> <<"X", "Y", " ", " ">>,
     artcc |-> <<"Z", "J", "X", " ">>,
     lat |-> <<"3", "1", "-", "0", "0", "-", "0", "0", ".", "0", "0", "0", "0", "N">>,
     lon |-> <<"0", "8", "6", "-", "0", "0", "-", "0", "0", ".", "0", "0", "0", "0", "W">>]

Rwy12000 ==
    [tag |-> "RWY",
     length |-> <<"1", "2", "0", "0", "0">>,
     surf_cond |-> <<"A", "S", "P", "H", "-", "C", "O", "N", "C", "-", "G", " ">>]

Rwy5000 ==
    [tag |-> "RWY",
     length |-> <<" ", "5", "0", "0", "0">>,
     surf_cond |-> <<"A", "S", "P", "H", "-", "G", " ", " ", " ", " ", " ", " ">>]

Rwy9000 ==
    [tag |-> "RWY",
     length |-> <<" ", "9", "0", "0", "0">>,
     surf_cond |-> <<"C", "O", "N", "C", " ", " ", " ", " ", " ", " ", " ", " ">>]

Rwy8000 ==
    [tag |-> "RWY",
     length |-> <<" ", "8", "0", "0", "0">>,
     surf_cond |-> <<"C", "O", "N", "C", "-", "G", " ", " ", " ", " ", " ", " ">>]

RwyWater ==
    [tag |-> "RWY",
     length |-> <<"1", "3", "0", "0", "0">>,
     surf_cond |-> <<"W", "A", "T", "E", "R", " ", " ", " ", " ", " ", " ", " ">>]

RwyTurf ==
    [tag |-> "RWY",
     length |-> <<" ", "9", "0", "0", "0">>,
     surf_cond |-> <<"T", "U", "R", "F", " ", " ", " ", " ", " ", " ", " ", " ">>]

\* the length column is blank
RwyBlank ==
    [tag |-> "RWY",
     length |-> <<" ", " ", " ", " ", " ">>,
     surf_cond |-> <<"A", "S", "P", "H", " ", " ", " ", " ", " ", " ", " ", " ">>]

RmkLine == [tag |-> "RMK"]
ArrLine == [tag |-> "ARR"]
AttLine == [tag |-> "ATT"]

\* A facility block: an APT line and its sub-records.  BlockPAM has no
\* boundary line of its own: the next APT line ends it, or nothing does.
BlockVPS == <<AptVPS, AttLine, Rwy12000, RmkLine>>
BlockPAM == <<AptPAM, Rwy5000, Rwy9000>>
BlockPHNL == <<AptPHNL, Rwy8000, ArrLine>>
BlockVPS2 == <<AptVPS2, RwyWater, RwyTurf, RmkLine>>
BlockLower == <<AptLower, Rwy8000, RmkLine>>
BlockXY == <<AptXY, RwyBlank, RmkLine>>

Blocks == {BlockVPS, BlockPAM, BlockPHNL, BlockVPS2, BlockLower, BlockXY}

\* The datasets a download can yield: up to MaxBlocks facility blocks
RECURSIVE DatasetsOf(_)
DatasetsOf(n) ==
    IF n = 0 THEN {<<>>}
    ELSE LET shorter == DatasetsOf(n - 1)
         IN  shorter \cup {d \o b : d \in shorter, b \in Blocks}

Datasets == DatasetsOf(MaxBlocks)

\* Arbitrary line sequences of up to MaxLines lines, for the parser alone
ParseLines == {AptVPS, AptPHNL, Rwy8000, RwyWater, RmkLine, ArrLine, AttLine}

RECURSIVE SeqsOf(_, _)
SeqsOf(S, n) ==
    IF n = 0 THEN {<<>>}
    ELSE LET shorter == SeqsOf(S, n - 1)
         IN  shorter \cup {Append(q, x) : q \in shorter, x \in S}

Files == SeqsOf(ParseLines, MaxLines)

\* Arguments of the calls
KVPS == <<"K", "V", "P", "S">>
KPAM == <<"K", "P", "A", "M">>
LowerKvps == <<"k", "v", "p", "s">>
ZZZZ == <<"Z", "Z", "Z", "Z">>
Idents == {KVPS, KPAM, LowerKvps, ZZZZ}
Nums == 0..MaxNum
MinLengths == {1, MinRwyLength}
\* <<return_string, get_centers>>
Flags == {<<FALSE, FALSE>>, <<FALSE, TRUE>>, <<TRUE, TRUE>>}

\* ------------------------------------------------------------ the system
\* lines      the APT.txt of the current cycle, which every download yields
\* airports   AvData.airports (none: still None)
\* apts       AeroData.apts of the AeroData instance (none: its constructor
\*            raised, there is no instance)
\* downloads  the number of times AvData has downloaded the dataset
\* ret        the outcome of the call just made, until the caller drops it
\*            (arg: the argument of a call that takes no identifier)
\* query      a nearest_airports call of a second thread, in flight between
\*            its reads of self.airports
NoList == [none |-> TRUE, list |-> <<>>]
Loaded(catalog) == [none |-> FALSE, list |-> catalog]

Idle == [op |-> "none", ident |-> <<>>, num |-> 0, min_rwy_length |-> 0,
         flags |-> <<FALSE, FALSE>>, arg |-> <<>>,
         exc |-> None, what |-> None, val |-> <<>>]

\* No call of the second thread is in flight.  pc is the place of the
\* call; a is the loop variable of the lookup; resolved_in and scanned_in
\* are the lists that self.airports named when the two loops began.
NoQuery == [pc |-> "none", ident |-> <<>>, num |-> 0, min_rwy_length |-> 0,
            a |-> <<>>, resolved_in |-> <<>>, scanned_in |-> <<>>,
            exc |-> None, what |-> None, val |-> <<>>]

\* AeroData.__init__: update_data() and parseAirports(filename)
AeroDataOf(p) == IF p.exc # None THEN NoList ELSE Loaded(p.airports)

AeroDataInit(ls) == AeroDataOf(parseAirports(ls))

Init ==
    /\ lines \in Datasets
    /\ airports = NoList
    /\ apts = AeroDataInit(lines)
    /\ downloads = 0
    /\ ret = Idle
    /\ query = NoQuery

\* The assignment of update_airport_data done wrongly: the new facilities appended to the list
\* the instance already held
UpdatedFromMerging(p, old) ==
    IF p.exc # None
    THEN [exc |-> p.exc, what |-> "__parse_airports", airports |-> old]
    ELSE [exc |-> None, what |-> None, airports |-> Loaded(old.list \o p.airports)]

\* update_airport_data as an operator: what it leaves in self.airports
\* and whether it raised
UpdatedFrom(p, old) ==
    IF p.exc # None
    THEN [exc |-> p.exc, what |-> "__parse_airports", airports |-> old]
    ELSE [exc |-> None, what |-> None, airports |-> Loaded(p.airports)]

\* The steps of update_airport_data that can raise before the assignment
UpdateSteps == {"__download_data", "__parse_airports"}

\* __download_data raises (requests.get or shutil.unpack_archive, both
\* OSError) when fetched is FALSE, and then nothing is parsed or assigned
update_airport_data(fetched, ls, old) ==
    IF ~fetched
    THEN [exc |-> "OSError", what |-> "__download_data", airports |-> old]
    ELSE UpdatedFrom(parse_airports(ls), old)

\* `not self.airports`: None or the empty list
NotAirports(a) == a.none \/ a.list = <<>>

\* if not self.airports: self.update_airport_data()
LazyUpdate(fetched, ls, old) ==
    IF NotAirports(old) THEN update_airport_data(fetched, ls, old)
    ELSE [exc |-> None, what |-> None, airports |-> old]

\* Each action binds the outcome of the whole call once (\E o \in {...})
\* and then assigns the fields and the returned value from it.
UpdateAirportData ==
    /\ ret.op = "none"
    /\ downloads < MaxDownloads
    /\ \E u \in {update_airport_data(fetched, lines, airports) : fetched \in BOOLEAN} :
          /\ airports' = u.airports
          /\ ret' = [Idle EXCEPT !.op = "update_airport_data", !.exc = u.exc,
                                 !.what = u.what]
    /\ downloads' = downloads + 1
    /\ UNCHANGED <<lines, apts, query>>

\* The outcome of a query that first runs the lazy update u: the exception
\* of the update if it raised, else the outcome r of the lookup
Outcome(call, u, r) ==
    IF u.exc # None THEN [call EXCEPT !.exc = u.exc, !.what = u.what]
    ELSE [call EXCEPT !.exc = r.exc, !.what = r.what, !.val = r.val]

GetData(icao_ident) ==
    /\ ret.op = "none"
    /\ NotAirports(airports) => downloads < MaxDownloads
    /\ \E u \in {LazyUpdate(fetched, lines, airports) : fetched \in BOOLEAN} :
          /\ airports' = u.airports
          /\ ret' = Outcome([Idle EXCEPT !.op = "get_data", !.ident = icao_ident],
                            u, get_data(u.airports.list, icao_ident))
    /\ downloads' = IF NotAirports(airports) THEN downloads + 1 ELSE downloads
    /\ UNCHANGED <<lines, apts, query>>

NearestAirports(icao_ident, num, min_rwy_length, flags) ==
    /\ ret.op = "none"
    /\ NotAirports(airports) => downloads < MaxDownloads
    /\ \E u \in {LazyUpdate(fetched, lines, airports) : fetched \in BOOLEAN} :
          /\ airports' = u.airports
          /\ ret' = Outcome([Idle EXCEPT !.op = "nearest_airports", !.ident = icao_ident,
                                         !.num = num, !.min_rwy_length = min_rwy_length,
                                         !.flags = flags],
                            u, nearest_airports(u.airports.list, icao_ident, num,
                                                min_rwy_length, flags[1], flags[2]))
    /\ downloads' = IF NotAirports(airports) THEN downloads + 1 ELSE downloads
    /\ UNCHANGED <<lines, apts, query>>

\* bearing_range: the first get_data runs the lazy update; ret.arg is the
\* destination identifier
BearingRange(icao_ident_origin, icao_ident_dest) ==
    /\ ret.op = "none"
    /\ NotAirports(airports) => downloads < MaxDownloads
    /\ \E u \in {LazyUpdate(fetched, lines, airports) : fetched \in BOOLEAN} :
          /\ airports' = u.airports
          /\ ret' = Outcome([Idle EXCEPT !.op = "bearing_range",
                                         !.ident = icao_ident_origin,
                                         !.arg = icao_ident_dest],
                            u, bearing_range(u.airports.list, icao_ident_origin,
                                             icao_ident_dest))
    /\ downloads' = IF NotAirports(airports) THEN downloads + 1 ELSE downloads
    /\ UNCHANGED <<lines, apts, query>>

NearestApts(aptID, num) ==
    /\ ret.op = "none"
    /\ ~apts.none
    /\ \E r \in {nearestApts(apts.list, aptID, num)} :
          ret' = [Idle EXCEPT !.op = "nearestApts", !.ident = aptID, !.num = num,
                              !.exc = r.exc, !.what = r.what, !.val = r.val]
    /\ UNCHANGED <<lines, airports, apts, downloads, query>>

\* The module-level name of Preflight.py that the constructor reads
home_airport == KVPS

\* Preflight.__init__ after its AeroData() was constructed with outcome p:
\* the exception of the constructor, or self.apts from nearestApts
PreflightOf(p, num_airports) ==
    IF p.exc # None THEN [exc |-> p.exc, what |-> "parseAirports", val |-> <<>>]
    ELSE nearestApts(p.airports, home_airport, num_airports)

\* Preflight(icao_ident, num_airports, getCenter): the instance builds an
\* AeroData of its own from the current dataset; ret.val is self.apts
Preflight(icao_ident, num_airports, getCenter) ==
    /\ ret.op = "none"
    /\ \E r \in {PreflightOf(parseAirports(lines), num_airports)} :
          ret' = [Idle EXCEPT !.op = "Preflight", !.ident = icao_ident,
                              !.num = num_airports, !.flags = <<FALSE, getCenter>>,
                              !.exc = r.exc, !.what = r.what, !.val = r.val]
    /\ UNCHANGED <<lines, airports, apts, downloads, query>>

\* The caller is done with the outcome of its call
Forget ==
    /\ ret.op # "none"
    /\ ret' = Idle
    /\ UNCHANGED <<lines, airports, apts, downloads, query>>

Next ==
    \/ UpdateAirportData
    \/ \E id \in Idents : GetData(id)
    \/ \E id \in Idents, num \in Nums, m \in MinLengths, f \in Flags :
          NearestAirports(id, num, m, f)
    \/ \E id \in Idents, num \in Nums : NearestApts(id, num)
    \/ \E origin \in Idents, dest \in Idents : BearingRange(origin, dest)
    \/ \E id \in Idents, num \in Nums, getCenter \in BOOLEAN : Preflight(id, num, getCenter)
    \/ Forget

Spec == Init /\ [][Next]_vars

\* ------------------------------------------------- the parser on its own
\* One parse of an arbitrary line sequence; ret.val holds the catalog.
ParseInit ==
    /\ lines \in Files
    /\ airports = NoList
    /\ apts = NoList
    /\ downloads = 0
    /\ ret = Idle
    /\ query = NoQuery

ParseAirportsAero ==
    /\ ret.op = "none"
    /\ \E p \in {parseAirports(lines)} :
          ret' = [Idle EXCEPT !.op = "parseAirports", !.exc = p.exc, !.val = p.airports]
    /\ UNCHANGED <<lines, airports, apts, downloads, query>>

ParseAirportsAv ==
    /\ ret.op = "none"
    /\ \E p \in {parse_airports(lines)} :
          ret' = [Idle EXCEPT !.op = "__parse_airports", !.exc = p.exc, !.val = p.airports]
    /\ UNCHANGED <<lines, airports, apts, downloads, query>>

ParseNext == ParseAirportsAero \/ ParseAirportsAv

ParseSpec == ParseInit /\ [][ParseNext]_vars

\* --------------------------------------- the coordinate converter alone
\* The state before any instance exists
Fresh ==
    /\ lines = <<>>
    /\ airports = NoList
    /\ apts = NoList
    /\ downloads = 0
    /\ ret = Idle
    /\ query = NoQuery

\* The character of one decimal digit
DigitChar(d) == CHOOSE c \in Digits : DigitVal(c) = d

\* n written with w decimal digits, zero-padded
PadDigits(n, w) == [k \in 1..w |-> DigitChar((n \div Pow10(w - k)) % 10)]

\* The text of the coordinate columns for c = [d, m, s, h]: d degrees in w
\* digits, m minutes, s seconds in units of 1/SecScale, hemisphere letter h
EncodeDms(c, w) ==
    PadDigits(c.d, w) \o <<"-">> \o PadDigits(c.m, 2) \o <<"-">>
    \o PadDigits(c.s \div SecScale, 2) \o <<".">> \o PadDigits(c.s % SecScale, 4)
    \o <<c.h>>

\* lines[i][523:537] and lines[i][550:565]
EncodeLat(c) == EncodeDms(c, 2)
EncodeLon(c) == EncodeDms(c, 3)

\* Coordinates of the columns; the letter X stands for a letter that names
\* no hemisphere
LatInputs == [d : {0, 30, 89}, m : {0, 59}, s : {0, 581370, 599999}, h : {"N", "S", "X"}]
LonInputs == [d : {0, 86, 179}, m : {0, 59}, s : {0, 313390, 599999}, h : {"E", "W", "X"}]

\* AvData.__convert_to_deg: the same statements as AeroData.convertToDeg
convert_to_deg(coords) ==
    DegOf(coords[1], coords[2],
          DecodeDms(coords[1], 1, 2, 4, 5, 7, 13),
          DecodeDms(coords[2], 1, 3, 5, 6, 8, 14))

\* One call on the column texts of the pair <<la, lo>>; ret.arg keeps the
\* pair and the texts
Converted(op, la, lo, r) ==
    [Idle EXCEPT !.op = op,
                 !.arg = [lat |-> la, lon |-> lo, text |-> <<EncodeLat(la), EncodeLon(lo)>>],
                 !.exc = r.exc, !.val = r.val]

ConvertToDegAero(la, lo) ==
    /\ ret.op = "none"
    /\ ret' = Converted("convertToDeg", la, lo,
                        convertToDeg(<<EncodeLat(la), EncodeLon(lo)>>))
    /\ UNCHANGED <<lines, airports, apts, downloads, query>>

ConvertToDegAv(la, lo) ==
    /\ ret.op = "none"
    /\ ret' = Converted("__convert_to_deg", la, lo,
                        convert_to_deg(<<EncodeLat(la), EncodeLon(lo)>>))
    /\ UNCHANGED <<lines, airports, apts, downloads, query>>

ConvNext ==
    \/ \E la \in LatInputs, lo \in LonInputs : ConvertToDegAero(la, lo)
    \/ \E la \in LatInputs, lo \in LonInputs : ConvertToDegAv(la, lo)
    \/ Forget

ConvSpec == Fresh /\ [][ConvNext]_vars

\* ------------------------------------------------------- NOTAM lookup
\* str.strip()
strip(s) == rstrip(lstrip(s))

\* text.replace("\n"," ")
ReplaceNewlines(s) == [k \in 1..Len(s) |-> IF s[k] = "\n" THEN " " ELSE s[k]]

\* "-" in text
HasDash(s) == \E k \in 1..Len(s) : s[k] = "-"

\* text.split("-",1)[1] for a text that holds a "-"
AfterFirstDash(s) == SubSeq(s, Least({k \in 1..Len(s) : s[k] = "-"}) + 1, Len(s))

\* " ".join(s.split()): the words of s from position k on, joined to acc
\* with one blank between two words
RECURSIVE JoinWords(_, _, _)
JoinWords(s, k, acc) ==
    IF k > Len(s) THEN acc
    ELSE IF IsSpace(s[k]) THEN JoinWords(s, k + 1, acc)
    ELSE JoinWords(s, k + 1,
                   IF acc # <<>> /\ k > 1 /\ IsSpace(s[k - 1])
                   THEN acc \o <<" ", s[k]>> ELSE Append(acc, s[k]))

\* x in notam_list
InList(x, notam_list) == \E j \in 1..Len(notam_list) : notam_list[j] = x

\* The body of `for notam in notam_list_html` for one cell text
NotamStep(text, notam_list) ==
    IF strip(text) # <<>> /\ ~InList(strip(text), notam_list) /\ HasDash(text)
    THEN Append(notam_list, strip(AfterFirstDash(ReplaceNewlines(text))))
    ELSE IF strip(text) # <<>> /\ ~InList(strip(text), notam_list)
    THEN Append(notam_list, JoinWords(strip(ReplaceNewlines(text)), 1, <<>>))
    ELSE notam_list

RECURSIVE NotamLoop(_, _, _)
NotamLoop(cells, k, notam_list) ==
    IF k > Len(cells) THEN notam_list
    ELSE NotamLoop(cells, k + 1, NotamStep(cells[k], notam_list))

\* AvData.notams once the page is there, or ValueError when requests.get
\* raised
notams(fetched, cells) ==
    IF fetched THEN [exc |-> None, what |-> None, val |-> NotamLoop(cells, 1, <<>>)]
    ELSE [exc |-> "ValueError", what |-> "No valid data found", val |-> <<>>]

\* Notam.getNotams: an exception of requests.get is not caught
getNotams(fetched, cells) ==
    IF fetched THEN [exc |-> None, what |-> None, val |-> NotamLoop(cells, 1, <<>>)]
    ELSE [exc |-> "RequestException", what |-> "requests.get", val |-> <<>>]

\* Texts of the td cells of class textBlack12: a NOTAM with its location in
\* front of a "-", the text "R", a blank cell, two words on two lines, and
\* the two words on one line
CellVR == <<"V", " ", "-", " ", "R">>
CellR == <<"R">>
CellBlank == <<" ", "\n">>
CellTwoLines == <<"A", " ", "\n", "B">>
CellAB == <<"A", " ", "B">>
Cells == {CellVR, CellR, CellBlank, CellTwoLines, CellAB}

\* The pages: up to MaxCells cells
Pages == SeqsOf(Cells, MaxCells)

Notams(fetched, cells) ==
    /\ ret.op = "none"
    /\ \E r \in {notams(fetched, cells)} :
          ret' = [Idle EXCEPT !.op = "notams", !.arg = cells,
                              !.exc = r.exc, !.what = r.what, !.val = r.val]
    /\ UNCHANGED <<lines, airports, apts, downloads, query>>

GetNotams(fetched, cells) ==
    /\ ret.op = "none"
    /\ \E r \in {getNotams(fetched, cells)} :
          ret' = [Idle EXCEPT !.op = "getNotams", !.arg = cells,
                              !.exc = r.exc, !.what = r.what, !.val = r.val]
    /\ UNCHANGED <<lines, airports, apts, downloads, query>>

NotamNext ==
    \/ \E fetched \in BOOLEAN, cells \in Pages : Notams(fetched, cells)
    \/ \E fetched \in BOOLEAN, cells \in Pages : GetNotams(fetched, cells)
    \/ Forget

NotamSpec == Fresh /\ [][NotamNext]_vars

\* ------------------------------------ a query beside a catalog rebuild
\* Two threads share one AvData instance.  The first calls
\* update_airport_data (UpdateAirportData above, its outcome in ret) as new
\* dataset cycles appear; the second runs nearest_airports(icao_ident, num,
\* min_rwy_length), whose three reads of self.airports are three steps.
\* The method `self.airports = self.__parse_airports(...)` builds the new
\* list aside and binds it in one assignment, and a for loop keeps the
\* list it began on, so each loop is one step.
CycleDatasets == DatasetsOf(1)
ConcIdents == {KVPS, KPAM}

ConcInit ==
    /\ lines \in CycleDatasets
    /\ airports = NoList
    /\ apts = NoList
    /\ downloads = 0
    /\ ret = Idle
    /\ query = NoQuery

\* The FAA publishes the dataset of the next cycle
NewCycle ==
    /\ \E ls \in CycleDatasets : ls # lines /\ lines' = ls
    /\ UNCHANGED <<airports, apts, downloads, ret, query>>

\* The call is entered: if not self.airports: self.update_airport_data()
QueryBegin(icao_ident, num, min_rwy_length) ==
    /\ query.pc = "none"
    /\ NotAirports(airports) => downloads < MaxDownloads
    /\ \E u \in {LazyUpdate(fetched, lines, airports) : fetched \in BOOLEAN} :
          /\ airports' = u.airports
          /\ query' = [NoQuery EXCEPT !.pc = IF u.exc # None THEN "done" ELSE "lookup",
                                      !.ident = icao_ident, !.num = num,
                                      !.min_rwy_length = min_rwy_length,
                                      !.exc = u.exc, !.what = u.what]
    /\ downloads' = IF NotAirports(airports) THEN downloads + 1 ELSE downloads
    /\ UNCHANGED <<lines, apts, ret>>

\* The query after `for a in self.airports` found a at index o of the list
\* that self.airports names now, or found nothing (o = 0)
Resolved(q, catalog, o) ==
    IF o = 0
    THEN [q EXCEPT !.pc = "done", !.resolved_in = catalog,
                   !.exc = "ValueError", !.what = "not found in FAA data"]
    ELSE [q EXCEPT !.pc = "scan", !.resolved_in = catalog, !.a = catalog[o]]

QueryLookup ==
    /\ query.pc = "lookup"
    /\ query' = Resolved(query, airports.list, FindAirport(airports.list, query.ident, 1))
    /\ UNCHANGED <<lines, airports, apts, downloads, ret>>

\* The query after `for apt in self.airports` over the list that
\* self.airports names now, the sort, the cut and the return
Scanned(q, catalog, r) ==
    [q EXCEPT !.pc = "done", !.scanned_in = catalog,
              !.exc = r.exc, !.what = r.what, !.val = r.val]

QueryScan ==
    /\ query.pc = "scan"
    /\ query' = Scanned(query, airports.list,
                        AvResult(AvScan(airports.list, query.a, query.min_rwy_length,
                                        1, <<>>),
                                 query.num, FALSE, FALSE))
    /\ UNCHANGED <<lines, airports, apts, downloads, ret>>

\* The second thread is done with the outcome of its call
QueryForget ==
    /\ query.pc = "done"
    /\ query' = NoQuery
    /\ UNCHANGED <<lines, airports, apts, downloads, ret>>

ConcNext ==
    \/ NewCycle
    \/ UpdateAirportData
    \/ Forget
    \/ \E id \in ConcIdents, num \in Nums, m \in MinLengths : QueryBegin(id, num, m)
    \/ QueryLookup
    \/ QueryScan
    \/ QueryForget

ConcSpec == ConcInit /\ [][ConcNext]_vars

\* --------------------------------------------------- the dataset cycle
\* Time is counted in half days from the anchor 10/08/2020 00:00, so that
\* datetime.today() can fall on a cycle boundary's midnight and after it.
TicksPerDay == 2
Period == CyclePeriodDays * TicksPerDay

\* The values of datetime.today(): from three days before the anchor to the
\* end of day MaxToday
Todays == (0 - 3 * TicksPerDay)..(MaxToday * TicksPerDay + 1)

\* Mutant of WhileCond: the loop stops one cycle early
WhileCondLate(t, current_end_date) == t > current_end_date + Period

\* while t>current_end_date
WhileCond(t, current_end_date) == t > current_end_date

\* datetime.strftime(start_date,"%Y-%m-%d"): the date of start_date, as
\* days after the anchor
DateOf(start_date) == start_date \div TicksPerDay

UrlOps == {"generateURL", "__generate_URL"}

\* The locals of the call before the loop: start_date is the anchor
UrlEntered(op, t) ==
    [Idle EXCEPT !.op = op,
                 !.arg = [pc |-> "while", t |-> t, start_date |-> 0,
                          current_end_date |-> Period]]

\* AeroData.generateURL is entered with t = datetime.today()
GenerateURLAero(t) ==
    /\ ret.op = "none"
    /\ ret' = UrlEntered("generateURL", t)
    /\ UNCHANGED <<lines, airports, apts, downloads, query>>

\* AvData.__generate_URL: the same statements
GenerateURLAv(t) ==
    /\ ret.op = "none"
    /\ ret' = UrlEntered("__generate_URL", t)
    /\ UNCHANGED <<lines, airports, apts, downloads, query>>

\* One pass of the loop body
UrlWhile ==
    /\ ret.op \in UrlOps
    /\ ret.arg.pc = "while"
    /\ WhileCond(ret.arg.t, ret.arg.current_end_date)
    /\ ret' = [ret EXCEPT !.arg.start_date = ret.arg.current_end_date,
                          !.arg.current_end_date = ret.arg.current_end_date + Period]
    /\ UNCHANGED <<lines, airports, apts, downloads, query>>

\* The loop is left and the URL with the date of start_date is returned
UrlReturn ==
    /\ ret.op \in UrlOps
    /\ ret.arg.pc = "while"
    /\ ~WhileCond(ret.arg.t, ret.arg.current_end_date)
    /\ ret' = [ret EXCEPT !.arg.pc = "return", !.val = <<DateOf(ret.arg.start_date)>>]
    /\ UNCHANGED <<lines, airports, apts, downloads, query>>

\* The caller is done with the URL
UrlForget ==
    /\ ret.op \in UrlOps
    /\ ret.arg.pc = "return"
    /\ ret' = Idle
    /\ UNCHANGED <<lines, airports, apts, downloads, query>>

UrlNext ==
    \/ \E t \in Todays : GenerateURLAero(t)
    \/ \E t \in Todays : GenerateURLAv(t)
    \/ UrlWhile
    \/ UrlReturn
    \/ UrlForget

\* A call that was entered keeps running: nothing it executes blocks
UrlSpec == Fresh /\ [][UrlNext]_vars /\ WF_vars(UrlWhile) /\ WF_vars(UrlReturn)

\* ===================================================================
\* Properties.  The definitions below restate what the claims say in
\* terms of sets, independently of the loops above.
\* ===================================================================
\* Usable runway length: the largest length among the runways whose surface
\* is neither WATER nor TURF, 0 when there is none
UsableLen(apt) ==
    LET S == {ParseInt(apt.rwys[k].length).val :
                 k \in {j \in 1..Len(apt.rwys) :
                           apt.rwys[j].surface \notin {WATER, TURF}}} \cup {0}
    IN  CHOOSE m \in S : \A x \in S : x <= m

\* Range from facility o to facility f, in metres
RangeMetres(o, f) ==
    GeodInv(o.location[2], o.location[1], f.location[2], f.location[1]).dist

\* The facilities of a catalog whose identifier equals ident
ExactMatches(catalog, ident) == {k \in 1..Len(catalog) : catalog[k].icao_ident = ident}

\* ... and those whose identifier equals it ignoring letter case
CaseMatches(catalog, ident) ==
    {k \in 1..Len(catalog) : upper(catalog[k].icao_ident) = upper(ident)}

AeroReturned == ret.op = "nearestApts" /\ ret.exc = None
AeroOrigin == apts.list[Least(ExactMatches(apts.list, ret.ident))]

\* The facilities of AeroData's catalog that pass its filter
AeroPassing ==
    {k \in 1..Len(apts.list) :
        /\ UsableLen(apts.list[k]) >= 8000
        /\ RangeMetres(AeroOrigin, apts.list[k]) < 1000 * 1852}

\* nearest_airports returned a list of facilities and nothing else
AvReturned ==
    /\ ret.op = "nearest_airports"
    /\ ret.exc = None
    /\ ret.flags = <<FALSE, FALSE>>
AvOrigin == airports.list[Least(CaseMatches(airports.list, ret.ident))]

\* The facilities of AvData's catalog with a long enough runway
AvQualifying ==
    {k \in 1..Len(airports.list) : UsableLen(airports.list[k]) >= ret.min_rwy_length}

\* C1: nearest_airports(icao_ident, num, min_rwy_length, False, False)
\* returns the num closest qualifying facilities: distinct facilities of
\* the catalog, each with a usable runway length >= min_rwy_length, and no
\* qualifying facility that was left out is strictly closer to the origin
\* than a returned one.
C1_NearestAirportsClosestQualifying ==
    AvReturned =>
        /\ \A k \in 1..Len(ret.val) :
              /\ ret.val[k].kind = "Airport"
              /\ \E j \in AvQualifying : airports.list[j] = ret.val[k].apt
        /\ \A j, k \in 1..Len(ret.val) : j # k => ret.val[j].apt # ret.val[k].apt
        /\ \A j \in AvQualifying :
              (\A k \in 1..Len(ret.val) : ret.val[k].apt # airports.list[j])
              => \A k \in 1..Len(ret.val) :
                    RangeMetres(AvOrigin, airports.list[j])
                       >= RangeMetres(AvOrigin, ret.val[k].apt)

\* C2: the list returned by nearestApts is non-decreasing in range, and a
\* non-empty list starts with the smallest range among the facilities that
\* pass the filter.
C2_NearestAptsAscending ==
    AeroReturned =>
        /\ \A j, k \in 1..Len(ret.val) : j < k => ret.val[j].dist <= ret.val[k].dist
        /\ ret.val # <<>> =>
              \A k \in AeroPassing :
                 ret.val[1].dist <= RangeMetres(AeroOrigin, apts.list[k])

\* C2 witness: a returned list in which sorting has put a facility that
\* comes later in the catalog in front of an earlier, more distant one
C2_Witness ==
    /\ AeroReturned
    /\ Len(ret.val) >= 2
    /\ ret.val[1].dist < ret.val[2].dist
    /\ ret.val[1].a.src > ret.val[2].a.src

\* C3: for count >= 0, nearestApts and nearest_airports (get_centers=False)
\* return exactly min(count, Q) entries, Q the number of facilities that
\* pass the filter.
C3_ResultCount ==
    /\ (AeroReturned /\ ret.num >= 0)
          => Len(ret.val) = Min(ret.num, Cardinality(AeroPassing))
    /\ (ret.op = "nearest_airports" /\ ret.exc = None /\ ~ret.flags[2] /\ ret.num >= 0)
          => Len(ret.val) = Min(ret.num, Cardinality(AvQualifying))

\* C3 witness: nearest_airports cut a longer list down to count entries
C3_Witness ==
    /\ ret.op = "nearest_airports"
    /\ ret.exc = None
    /\ ~ret.flags[2]
    /\ ret.num >= 1
    /\ ret.num < Cardinality(AvQualifying)
    /\ Len(ret.val) = ret.num

\* C4: a nearest query whose origin identifier matches no facility of the
\* catalog fails with the not-found error (ValueError, "not found in FAA
\* data"), in nearest_airports and in nearestApts alike.
C4_MissingOriginNotFound ==
    /\ (/\ ret.op = "nearest_airports"
        /\ ret.what \notin UpdateSteps
        /\ CaseMatches(airports.list, ret.ident) = {})
          => (ret.exc = "ValueError" /\ ret.what = "not found in FAA data")
    /\ (/\ ret.op = "nearestApts"
        /\ CaseMatches(apts.list, ret.ident) = {})
          => (ret.exc = "ValueError" /\ ret.what = "not found in FAA data")

\* C5: get_data returns the first facility in catalog order whose
\* identifier equals icao_ident ignoring case, and raises ValueError if and
\* only if no facility matches (whenever the catalog could be loaded).
C5_GetDataFirstMatch ==
    (ret.op = "get_data" /\ ret.what \notin UpdateSteps) =>
        LET M == CaseMatches(airports.list, ret.ident)
        IN  /\ (ret.exc = "ValueError") <=> (M = {})
            /\ ret.exc \in {None, "ValueError"}
            /\ M # {} => ret.val = <<airports.list[Least(M)]>>

\* C5 witness: get_data returned the first of two facilities that match,
\* under an identifier spelled in another case
C5_Witness ==
    /\ ret.op = "get_data"
    /\ ret.exc = None
    /\ Cardinality(CaseMatches(airports.list, ret.ident)) >= 2
    /\ ret.val[1].icao_ident # ret.ident
    /\ ret.val[1].src = 1

\* The facilities of AeroData's catalog found in the returned list
AeroReturnedSet == {k \in 1..Len(apts.list) :
                       \E n \in 1..Len(ret.val) : ret.val[n].a = apts.list[k]}

\* nearestApts returned without cutting its list: num covers the catalog
AeroUntruncated == AeroReturned /\ ret.num >= Len(apts.list)

\* C6 as stated: a candidate is kept (before truncation) if and only if
\* its usable runway length is >= the minimum and its range is <= the
\* maximum range, so a facility exactly at the range cap is kept.
C6_KeptIffWithinCapInclusive ==
    AeroUntruncated =>
        \A k \in 1..Len(apts.list) :
           (k \in AeroReturnedSet)
              <=> /\ UsableLen(apts.list[k]) >= 8000
                  /\ RangeMetres(AeroOrigin, apts.list[k]) <= 1000 * 1852

\* C6 amended: a candidate is kept if and only if its usable runway length
\* is >= 8000 and its range is strictly below 1000 nautical miles; a
\* facility exactly at the range cap is left out.
C6_KeptIffBelowCap ==
    AeroUntruncated =>
        \A k \in 1..Len(apts.list) :
           (k \in AeroReturnedSet)
              <=> /\ UsableLen(apts.list[k]) >= 8000
                  /\ RangeMetres(AeroOrigin, apts.list[k]) < 1000 * 1852

\* C6 witness: a facility with an 8000 ft runway exactly 1000 nm from the
\* origin is left out of a list that was not cut
C6_Witness ==
    /\ AeroUntruncated
    /\ ret.val # <<>>
    /\ \E k \in 1..Len(apts.list) :
          /\ UsableLen(apts.list[k]) >= 8000
          /\ RangeMetres(AeroOrigin, apts.list[k]) = 1000 * 1852
          /\ k \notin AeroReturnedSet

\* C7 as stated: the list returned by nearestApts never contains the
\* origin facility itself.
C7_OriginNeverReturned ==
    AeroReturned => \A n \in 1..Len(ret.val) : ret.val[n].a # AeroOrigin

\* The facilities that pass the filter at range 0
AeroAtOrigin == {k \in AeroPassing : RangeMetres(AeroOrigin, apts.list[k]) = 0}

\* C7 amended: the query evaluates every facility, the origin included.
\* The origin is returned, at range 0, whenever its usable runway length is
\* >= 8000 and num is at least the number of kept facilities at range 0;
\* it is not returned when its usable runway length is below 8000.
C7_OriginReturnedWhenQualifying ==
    AeroReturned =>
        /\ UsableLen(AeroOrigin) < 8000
              => \A n \in 1..Len(ret.val) : ret.val[n].a # AeroOrigin
        /\ (UsableLen(AeroOrigin) >= 8000 /\ ret.num >= Cardinality(AeroAtOrigin))
              => \E n \in 1..Len(ret.val) :
                    ret.val[n].a = AeroOrigin /\ ret.val[n].dist = 0

\* C7 witness: the origin heads a returned list of two facilities
C7_Witness ==
    /\ AeroReturned
    /\ Len(ret.val) >= 2
    /\ ret.val[1].a = AeroOrigin
    /\ ret.val[2].a # AeroOrigin

\* ------------------------------------------------------ parser properties
Parsed == ret.op \in {"parseAirports", "__parse_airports"}
ParsedOk == Parsed /\ ret.exc = None

AptLines == {i \in 1..Len(lines) : lines[i].tag = "APT"}

\* The k-th smallest element of a set of line indices
Kth(S, k) == CHOOSE i \in S : Cardinality({j \in S : j < i}) = k - 1

\* The first index after i whose tag is RMK, APT or ARR
BlockEnd(i) == Least({j \in (i + 1)..Len(lines) : lines[j].tag \in {"RMK", "APT", "ARR"}})

\* The RWY lines between APT line i and the end of its block
RwyLinesOf(i) == {x \in (i + 1)..(BlockEnd(i) - 1) : lines[x].tag = "RWY"}

\* An APT line that no RMK, APT or ARR line follows
Unterminated ==
    \E i \in AptLines : \A j \in (i + 1)..Len(lines) : lines[j].tag \notin {"RMK", "APT", "ARR"}

\* C8: when parsing succeeds the catalog has exactly one facility per APT
\* line, in file order: the k-th facility is decoded from the k-th APT
\* line, and no other line produces a facility.
C8_OneFacilityPerAptLine ==
    ParsedOk =>
        /\ Len(ret.val) = Cardinality(AptLines)
        /\ \A k \in 1..Len(ret.val) :
              /\ ret.val[k].src = Kth(AptLines, k)
              /\ ret.val[k].icao_ident = NormalizeIdent(lines[Kth(AptLines, k)].ident)
              /\ ret.val[k].location =
                    convertToDeg(<<lines[Kth(AptLines, k)].lat,
                                   lines[Kth(AptLines, k)].lon>>).val

\* C8 witness: two facilities parsed, the first with a RWY line that the
\* outer loop visits again after the sub-record loop has scanned it
C8_Witness ==
    /\ ParsedOk
    /\ Len(ret.val) = 2
    /\ ret.val[1].rwys # <<>>
    /\ ret.val[1].icao_ident # ret.val[2].icao_ident

\* C9: the runways of the facility decoded from APT line i are exactly the
\* RWY lines between i and the first later RMK, APT or ARR line, in
\* increasing order; so every RWY line is attached to at most one facility.
C9_RunwaysOfBlock ==
    ParsedOk =>
        /\ \A k \in 1..Len(ret.val) :
              LET R == RwyLinesOf(ret.val[k].src)
                  rwys == ret.val[k].rwys
              IN  /\ Len(rwys) = Cardinality(R)
                  /\ \A n \in 1..Len(rwys) :
                        /\ rwys[n].src = Kth(R, n)
                        /\ rwys[n].length = lstrip(lines[Kth(R, n)].length)
        /\ \A x \in 1..Len(lines) :
              Cardinality({k \in 1..Len(ret.val) :
                              \E n \in 1..Len(ret.val[k].rwys) :
                                 ret.val[k].rwys[n].src = x}) <= 1

\* C9 witness: a parsed file with a RWY line attached to a facility and a
\* RWY line behind the boundary marker that is attached to none
C9_Witness ==
    /\ ParsedOk
    /\ \E k \in 1..Len(ret.val) : ret.val[k].rwys # <<>>
    /\ \E x \in 1..Len(lines) :
          /\ lines[x].tag = "RWY"
          /\ \A k \in 1..Len(ret.val) :
                \A n \in 1..Len(ret.val[k].rwys) : ret.val[k].rwys[n].src # x

\* C10: if the scan for a facility's sub-records reaches the end of the
\* lines without meeting RMK, APT or ARR, the parse fails (IndexError is
\* this code's malformed-record error) and yields no catalog.
C10_UnterminatedFails ==
    (Parsed /\ Unterminated) => (ret.exc = "IndexError" /\ ret.val = <<>>)

\* C10 witness: the parse failed on a file whose first facility is
\* complete and whose last one is not terminated
C10_Witness ==
    /\ Parsed
    /\ ret.exc = "IndexError"
    /\ Cardinality(AptLines) >= 2
    /\ lines[Len(lines)].tag = "RWY"

\* ------------------------------------------------- the decoded records
\* The catalogs the two classes hold, each facility with the APT line it
\* was decoded from
Catalogs == {apts.list, airports.list}

\* raw without its trailing blanks
Trimmed(raw) == SubSeq(raw, 1, Greatest({0} \cup {k \in 1..Len(raw) : raw[k] # " "}))

\* stored is raw under the rule: three characters get the K, four are kept
NormalizedAs(raw, stored) ==
    /\ Len(Trimmed(raw)) = 3 => stored = <<"K">> \o Trimmed(raw)
    /\ Len(Trimmed(raw)) = 4 => stored = raw

\* C11: a raw code of exactly 3 characters after trimming is stored with K
\* prefixed, a code of 4 characters is stored verbatim, and the rule holds
\* for the identifier and for the responsible ARTCC code separately.
C11_IdentNormalized ==
    \A catalog \in Catalogs : \A k \in 1..Len(catalog) :
        /\ NormalizedAs(lines[catalog[k].src].ident, catalog[k].icao_ident)
        /\ NormalizedAs(lines[catalog[k].src].artcc, catalog[k].responsible_artcc)

\* C11 witness: AvData holds KVPS decoded from "VPS " with the 4-character
\* ARTCC code KZMA kept, and PHNL kept with its ARTCC code ZHN prefixed
C11_Witness ==
    /\ \E k \in 1..Len(airports.list) :
          /\ lines[airports.list[k].src].ident = <<"V", "P", "S", " ">>
          /\ airports.list[k].icao_ident = KVPS
          /\ airports.list[k].responsible_artcc = <<"K", "Z", "M", "A">>
    /\ \E k \in 1..Len(airports.list) :
          /\ airports.list[k].icao_ident = <<"P", "H", "N", "L">>
          /\ airports.list[k].responsible_artcc = <<"K", "Z", "H", "N">>

\* C12 as stated: every facility of a parsed catalog has an identifier of
\* exactly 4 characters.
C12_IdentFourChars ==
    \A catalog \in Catalogs : \A k \in 1..Len(catalog) : Len(catalog[k].icao_ident) = 4

\* The raw surface token of a runway: the surf_cond columns of its RWY
\* line without the trailing blanks
SurfaceToken(rwy) == Trimmed(lines[rwy.src].surf_cond)

Dashes(tok) == {k \in 1..Len(tok) : tok[k] = "-"}

\* surface and cond are tok split at its last "-"
SplitAtLastDash(tok, surface, cond) ==
    IF Dashes(tok) = {}
    THEN surface = tok /\ cond = <<>>
    ELSE /\ \E k \in Dashes(tok) :
               /\ \A j \in Dashes(tok) : j <= k
               /\ surface = SubSeq(tok, 1, k - 1)
               /\ cond = SubSeq(tok, k + 1, Len(tok))
         /\ surface \o <<"-">> \o cond = tok

\* C13: every runway's surface is the part of its raw token before the
\* last "-" and its condition the part behind it; a token without "-" is
\* the surface whole, with an empty condition; surface, "-" and condition
\* joined give back every token that holds a "-".
C13_SurfaceSplit ==
    \A catalog \in Catalogs : \A k \in 1..Len(catalog) :
        \A n \in 1..Len(catalog[k].rwys) :
            SplitAtLastDash(SurfaceToken(catalog[k].rwys[n]),
                            catalog[k].rwys[n].surface, catalog[k].rwys[n].cond)

\* C13 witness: AvData holds a runway ASPH-CONC / G, split at the second
\* of two dashes, and a runway TURF with no condition
C13_Witness ==
    /\ \E k \in 1..Len(airports.list) : \E n \in 1..Len(airports.list[k].rwys) :
          /\ airports.list[k].rwys[n].surface = <<"A", "S", "P", "H", "-", "C", "O", "N", "C">>
          /\ airports.list[k].rwys[n].cond = <<"G">>
    /\ \E k \in 1..Len(airports.list) : \E n \in 1..Len(airports.list[k].rwys) :
          /\ airports.list[k].rwys[n].surface = TURF
          /\ airports.list[k].rwys[n].cond = <<>>

\* ------------------------------------------------ coordinate properties
ConvertedOk == ret.op \in {"convertToDeg", "__convert_to_deg"}

\* d + m/60 + s/3600 for c = [d, m, s, h], negated when h is the letter neg
DegreesOf(c, neg) ==
    IF c.h = neg THEN [m |-> 0 - (60 * c.d + c.m), s |-> 0 - c.s]
    ELSE [m |-> 60 * c.d + c.m, s |-> c.s]

\* C14: a (lat, lon) pair written as D-M-S-hemisphere text with N or S and
\* E or W decodes to degrees + minutes/60 + seconds/3600, negated for the
\* latitude exactly when the letter is S and for the longitude exactly when
\* it is W: the decoded pair is the original value (exactly, hence within
\* 1e-6 degrees).
C14_CoordinateRoundTrip ==
    (ConvertedOk /\ ret.arg.lat.h \in {"N", "S"} /\ ret.arg.lon.h \in {"E", "W"}) =>
        /\ ret.exc = None
        /\ ret.val = <<DegreesOf(ret.arg.lat, "S"), DegreesOf(ret.arg.lon, "W")>>

\* C14 witness: 30-59-58.1370S 086-59-31.3390E decoded to a negative
\* latitude and a positive longitude
C14_Witness ==
    /\ ret.op = "__convert_to_deg"
    /\ ret.arg.text = << <<"3", "0", "-", "5", "9", "-", "5", "8", ".", "1", "3", "7", "0", "S">>,
                         <<"0", "8", "6", "-", "5", "9", "-", "3", "1", ".", "3", "3", "9", "0", "E">> >>
    /\ ret.val = << [m |-> 0 - 1859, s |-> 0 - 581370], [m |-> 5219, s |-> 313390] >>

\* C15 as stated: a latitude text whose last letter is not N or S, or a
\* longitude text whose last letter is not E or W, makes the decoder
\* raise; it is never decoded to a value.
C15_InvalidHemisphereRejected ==
    (ConvertedOk /\ (ret.arg.lat.h \notin {"N", "S"} \/ ret.arg.lon.h \notin {"E", "W"})) =>
        ret.exc # None

\* ------------------------------------------------------------- centers
AvAnswered == ret.op = "nearest_airports" /\ ret.exc = None

\* The number of facilities the call selected: min(num, qualifying)
AvSelectedCount == Min(ret.num, Cardinality(AvQualifying))

\* The positions of seq that hold a value for the first time
FirstAt(seq) == {k \in 1..Len(seq) : \A j \in 1..(k - 1) : seq[j] # seq[k]}

\* The distinct values of seq in the order of their first occurrence
DistinctInOrder(seq) == [p \in 1..Cardinality(FirstAt(seq)) |-> seq[Kth(FirstAt(seq), p)]]

\* The strings that follow the first n entries of the returned list
StringsBehind(n) == [p \in 1..(Len(ret.val) - n) |-> ret.val[n + p].str]

\* C16: with get_centers the returned list is the selected facilities
\* followed by the distinct responsible_artcc codes of exactly those
\* facilities, each once, in the order of first occurrence; without
\* get_centers nothing follows the facilities.  (With return_string the
\* facilities are identifier strings: each code behind them is then the
\* code of a catalog facility named by one of them, no code is repeated,
\* and every string has its code.)
C16_CentersOfSelected ==
    AvAnswered =>
        /\ Len(ret.val) >= AvSelectedCount
        /\ \A k \in 1..Len(ret.val) :
              ret.val[k].kind = "Airport" <=> (~ret.flags[1] /\ k <= AvSelectedCount)
        /\ ~ret.flags[2] => Len(ret.val) = AvSelectedCount
        /\ (ret.flags[2] /\ ~ret.flags[1]) =>
              StringsBehind(AvSelectedCount) =
                 DistinctInOrder([k \in 1..AvSelectedCount |->
                                     ret.val[k].apt.responsible_artcc])
        /\ (ret.flags[2] /\ ret.flags[1]) =>
              /\ FirstAt(StringsBehind(AvSelectedCount))
                    = 1..(Len(ret.val) - AvSelectedCount)
              /\ \A p \in (AvSelectedCount + 1)..Len(ret.val) :
                    \E k \in 1..AvSelectedCount, j \in 1..Len(airports.list) :
                       /\ airports.list[j].icao_ident = ret.val[k].str
                       /\ airports.list[j].responsible_artcc = ret.val[p].str
              /\ \A k \in 1..AvSelectedCount :
                    \E p \in (AvSelectedCount + 1)..Len(ret.val),
                       j \in 1..Len(airports.list) :
                       /\ airports.list[j].icao_ident = ret.val[k].str
                       /\ airports.list[j].responsible_artcc = ret.val[p].str

\* C16 witness: two facilities were selected and one center code, which
\* they share, follows them
C16_Witness ==
    /\ AvAnswered
    /\ ret.flags = <<FALSE, TRUE>>
    /\ AvSelectedCount = 2
    /\ Len(ret.val) = 3
    /\ ret.val[3].kind = "str"
    /\ ret.val[3].str = ret.val[1].apt.responsible_artcc
    /\ ret.val[3].str = ret.val[2].apt.responsible_artcc

\* ----------------------------------------------------- NOTAM properties
NotamsReturned == ret.op \in {"notams", "getNotams"} /\ ret.exc = None

\* C17 as stated: no NOTAM string appears twice in the returned list.
C17_NotamsDeduplicated ==
    NotamsReturned => \A j, k \in 1..Len(ret.val) : j # k => ret.val[j] # ret.val[k]

\* -------------------------------------------------------------- downloads
\* C18 as stated: once update_airport_data has completed (self.airports is
\* a list), no get_data or nearest_airports call downloads the dataset
\* again, whatever catalog the parse produced.
C18_NoDownloadAfterUpdate ==
    [][(~airports.none /\ ret'.op \in {"get_data", "nearest_airports"})
          => downloads' = downloads]_vars

\* ------------------------------------------------------------ concurrency
\* C19 as stated: a nearest_airports call that runs beside a rebuild
\* resolves its origin and scans its candidates in one and the same
\* catalog.
C19_QueryObservesOneCatalog ==
    (query.pc = "done" /\ query.exc = None /\ query.a # <<>>)
        => query.resolved_in = query.scanned_in

\* ---------------------------------------------------------- dataset cycle
UrlRunning == ret.op \in UrlOps /\ ret.arg.pc = "while"
UrlReturned == ret.op \in UrlOps /\ ret.arg.pc = "return"

\* The returned date is k cycles after the anchor, the next boundary is
\* not before today, and the date is not after today when today is after
\* the anchor (dates in days, today in half days)
UrlDateRight ==
    \E k \in 0..MaxToday :
        /\ ret.val = <<CyclePeriodDays * k>>
        /\ (CyclePeriodDays * k + CyclePeriodDays) * TicksPerDay >= ret.arg.t
        /\ ret.arg.t > 0 => CyclePeriodDays * k * TicksPerDay <= ret.arg.t

\* C20: for every value of today the loop of generateURL / __generate_URL
\* terminates, and the dataset is addressed with the date D = anchor +
\* 28*k days, k >= 0, such that D + 28 days is not before today; when today
\* is after the anchor, D is not after today.
C20_CycleDerivation ==
    /\ [](UrlReturned => UrlDateRight)
    /\ (UrlRunning ~> UrlReturned)

\* C20 witness: today lies in the third cycle, and the loop has advanced
\* twice to return the date 56 days after the anchor
C20_Witness ==
    /\ UrlReturned
    /\ ret.arg.t > 2 * Period
    /\ ret.val = <<2 * CyclePeriodDays>>

\* ------------------------------------------------------ bearing and range
\* The azimuths of Geod.inv, in [-180, 180], and the bearings, in [0, 360)
Azimuths == (0 - 180)..180
Bearings == 0..359

\* bearing is the azimuth az with 360 added exactly when az is negative
BearingOfAzimuth(az, bearing) ==
    /\ az \in Azimuths
    /\ bearing \in Bearings
    /\ az < 0 => bearing = az + 360
    /\ az >= 0 => bearing = az

\* Geod.inv from facility o to facility f
InvBetween(o, f) == GeodInv(o.location[2], o.location[1], f.location[2], f.location[1])

BearingCalled == ret.op = "bearing_range" /\ ret.what \notin UpdateSteps
BearingOrigin == airports.list[Least(CaseMatches(airports.list, ret.ident))]
BearingDest == airports.list[Least(CaseMatches(airports.list, ret.arg))]

\* C21: the bearing of bearing_range and of every nearestApts entry is the
\* geodesic forward azimuth with 360 added exactly when it is negative, so
\* it lies in [0, 360); the range is the geodesic distance in metres over
\* 1852; bearing_range raises ValueError when either identifier is in no
\* facility of the catalog.
C21_BearingAndRange ==
    /\ (BearingCalled /\ (CaseMatches(airports.list, ret.ident) = {}
                          \/ CaseMatches(airports.list, ret.arg) = {}))
          => ret.exc = "ValueError"
    /\ (BearingCalled /\ CaseMatches(airports.list, ret.ident) # {}
                      /\ CaseMatches(airports.list, ret.arg) # {})
          => /\ ret.exc = None
             /\ BearingOfAzimuth(InvBetween(BearingOrigin, BearingDest).fwd_az, ret.val[1])
             /\ ret.val[2] = [metres |-> RangeMetres(BearingOrigin, BearingDest),
                              per |-> 1852]
    /\ AeroReturned =>
          \A n \in 1..Len(ret.val) :
             /\ BearingOfAzimuth(InvBetween(AeroOrigin, ret.val[n].a).fwd_az,
                                 ret.val[n].fwd_az)
             /\ ret.val[n].dist = RangeMetres(AeroOrigin, ret.val[n].a)

\* C21 witness: bearing_range from KVPS to a facility north-west of it
\* returned the bearing 315 for the azimuth -45
C21_Witness ==
    /\ BearingCalled
    /\ ret.exc = None
    /\ InvBetween(BearingOrigin, BearingDest).fwd_az = 0 - 45
    /\ ret.val[1] = 315
    /\ ret.val[2].metres > 0

\* ------------------------------------------------------ catalog refresh
\* A step in which update_airport_data ran, called directly or by the lazy
\* update of a query
RefreshRan == downloads' = downloads + 1

\* ... and raised in the download or in the parse
RefreshRaised ==
    \/ ret' # ret /\ ret'.what \in UpdateSteps
    \/ query' # query /\ query'.what \in UpdateSteps

\* list is the parse of the current lines and nothing else: one facility
\* per APT line, in file order, each with the runways of its block
FreshCatalog(list) ==
    /\ Len(list) = Cardinality(AptLines)
    /\ \A k \in 1..Len(list) :
          /\ list[k].src = Kth(AptLines, k)
          /\ list[k].icao_ident = NormalizeIdent(lines[Kth(AptLines, k)].ident)
          /\ Len(list[k].rwys) = Cardinality(RwyLinesOf(Kth(AptLines, k)))

\* C22: a refresh is all-or-nothing. If update_airport_data raises (in the
\* download, the unpack or the parse), self.airports is exactly what it was
\* before the call; if it returns, self.airports is the newly parsed catalog
\* as a whole, with nothing of the old one merged in or appended.
C22_RefreshAllOrNothing ==
    [][RefreshRan =>
          IF RefreshRaised THEN airports' = airports
          ELSE ~airports'.none /\ FreshCatalog(airports'.list)]_vars

\* C22 witness: a refresh raised while the instance held the catalog of an
\* earlier cycle, and the instance still holds that catalog, which is not
\* the one of the current lines
C22_Witness ==
    /\ ret.op = "update_airport_data"
    /\ ret.what = "__parse_airports"
    /\ ~airports.none
    /\ airports.list # <<>>
    /\ lines # <<>>
    /\ airports.list[1].icao_ident # NormalizeIdent(lines[1].ident)

\* ------------------------------------------------- totality of a query
\* The runways of the catalog whose length field is blank in the file and
\* whose surface is neither WATER nor TURF
BlankLengths(catalog) ==
    {<<k, n>> \in (1..Len(catalog)) \X (1..MaxLines) :
        /\ n <= Len(catalog[k].rwys)
        /\ catalog[k].rwys[n].length = <<>>
        /\ catalog[k].rwys[n].surface \notin {WATER, TURF}}

\* C23 as stated: over a catalog that was parsed without error, a nearest
\* query whose origin is in the catalog returns and does not raise, in
\* nearest_airports and in nearestApts alike.
C23_QueryOverParsedCatalogReturns ==
    /\ (/\ ret.op = "nearest_airports"
        /\ ret.what \notin UpdateSteps
        /\ CaseMatches(airports.list, ret.ident) # {})
          => ret.exc = None
    /\ (/\ ret.op = "nearestApts"
        /\ ExactMatches(apts.list, ret.ident) # {})
          => ret.exc = None

\* What the code does: such a query raises ValueError, from int(''), if and
\* only if some runway of the catalog has a blank length on a surface that
\* counts
C23_RaisesOnBlankLength ==
    /\ (/\ ret.op = "nearest_airports"
        /\ ret.what \notin UpdateSteps
        /\ CaseMatches(airports.list, ret.ident) # {})
          => /\ ret.exc \in {None, "ValueError"}
             /\ (ret.exc = "ValueError") <=> (BlankLengths(airports.list) # {})
    /\ (/\ ret.op = "nearestApts"
        /\ ExactMatches(apts.list, ret.ident) # {})
          => /\ ret.exc \in {None, "ValueError"}
             /\ (ret.exc = "ValueError") <=> (BlankLengths(apts.list) # {})

\* ------------------------------------------------------------ Preflight
\* A Preflight instance was constructed over a dataset that parsed
PreflightBuilt == ret.op = "Preflight" /\ ret.what # "parseAirports"

\* self.apts is what nearestApts gives for the origin aptID: the same
\* list, or the same exception
AptsListFrom(aptID) ==
    /\ ret.exc = nearestApts(apts.list, aptID, ret.num).exc
    /\ ret.val = nearestApts(apts.list, aptID, ret.num).val

\* C24 as stated: the constructor builds its list by calling nearestApts
\* with its own icao_ident argument, whatever the module-level home_airport
\* is, so that instances built with different identifiers query different
\* origins.
C24_PreflightQueriesItsIdent ==
    PreflightBuilt => AptsListFrom(ret.ident)

\* What the code does: every instance queries the module-level
\* home_airport and its icao_ident argument is never read
C24_PreflightQueriesHomeAirport ==
    PreflightBuilt => AptsListFrom(home_airport)

============================================================================
